---- MODULE Spec2Model ----
(***************************************************************************)
(* The mutations of the collection API (src/src/admin/server.ts, lines 90   *)
(* to 345): createAuthor, updateAuthor, createCollection, updateCollection, *)
(* createCollectionStory, updateCollectionStory and deleteCollectionStory,  *)
(* run against a relational store through the ORM client `db`.              *)
(*                                                                         *)
(* The store is the record `db` of tables.  Where calls run one at a time   *)
(* (SpecAuthor, SpecCollection, SpecStory, Spec) it enforces nothing by     *)
(* itself: a write is applied as issued (no unique index, no foreign key),  *)
(* so that every property there is decided by what the handlers check and   *)
(* by the order in which they write; the two story handlers that issue two  *)
(* writes are modelled await by await, so that the state between their      *)
(* writes is a state of the model.  Where calls overlap                     *)
(* (SpecConcurrentCollection, SpecConcurrentStory) every await is a step    *)
(* and the collection table has its unique index on slug.                   *)
(***************************************************************************)
EXTENDS Integers, Sequences, FiniteSets, TLC

VARIABLES
    db,     \* the store: authors, collections, stories, storyAuthors, storySeq
    clock,  \* the wall clock that `new Date()` reads
    req,    \* the mutation in flight (between two awaits), or Idle; one per
            \* slot where calls overlap
    last    \* the last call that returned or threw: [op, out]

vars == <<db, clock, req, last>>

----------------------------------------------------------------------------
(* Bounds of the model. *)

MaxAuthors == 2
MaxCollections == 2
MaxStories == 2
MaxClock == 2

----------------------------------------------------------------------------
(* Values. *)

\* An externalId that was not provided (`!data.externalId`, line 119).
NoId == 0

\* A column that holds NULL / an input field that is undefined.
Null == <<>>

\* A status that the update input leaves undefined.
NoStatus == "undefined"

CollectionStatus == {"draft", "published", "archived"}

Idle == [op |-> "idle"]

\* a call's outcome: the row it returned, or the message of the error it threw
Ok(row) == [kind |-> "ok", row |-> <<row>>, msg |-> <<>>]

Thrown(m) == [kind |-> "error", row |-> Null, msg |-> m]

threw(out, m) == out.kind = "error" /\ out.msg = m

succeeded(out) == out.kind = "ok"

\* line 105 and line 128
AuthorSlugExists(slug) == <<"An author with the slug \"", slug, "\" already exists">>

\* line 120
ExternalIdMissing == <<"externalId must be provided.">>

\* line 150 and line 209
CollectionSlugExists(slug) == <<"A collection with the slug ", slug, " already exists">>

\* line 192
CollectionNotFound == <<"A collection by that ID could not be found">>

\* What the ORM throws when the record of an update or a delete, or the record
\* a nested connect names, is not in the store; the write is rolled back as a
\* whole.
RecordNotFound == <<"An operation failed because it depends on one or more records that were required but not found.">>

\* What the runtime throws on `collection.id` / `existingStory.id` when the
\* lookup returned null (lines 271, 298, 332).
NullDereference == <<"TypeError: Cannot read properties of null (reading 'id')">>

----------------------------------------------------------------------------
(* slugify(data.name, config.slugify): leading and trailing blanks are     *)
(* trimmed and every run of blanks and hyphens becomes one hyphen          *)
(* ('the dude' becomes 'the-dude').  Names and author slugs are sequences   *)
(* of characters.                                                           *)

RECURSIVE TrimLeft(_)
TrimLeft(s) ==
    IF s # <<>> /\ Head(s) = " " THEN TrimLeft(Tail(s)) ELSE s

RECURSIVE TrimRight(_)
TrimRight(s) ==
    IF s # <<>> /\ s[Len(s)] = " " THEN TrimRight(SubSeq(s, 1, Len(s) - 1)) ELSE s

RECURSIVE Hyphenate(_)
Hyphenate(s) ==
    IF s = <<>> THEN <<>>
    ELSE LET r == Hyphenate(Tail(s))
         IN  IF Head(s) \in {" ", "-"}
             THEN IF r # <<>> /\ Head(r) = "-" THEN r ELSE <<"-">> \o r
             ELSE <<Head(s)>> \o r

slugify(name) == Hyphenate(TrimRight(TrimLeft(name)))

----------------------------------------------------------------------------
(* The ORM client's queries and writes on the store d. *)

\* db.collectionAuthor.count({ where: { slug } })
authorCount(d, slug) ==
    Cardinality({a \in DOMAIN d.authors : d.authors[a].slug = slug})

\* the filter `externalId: externalId` in place of `externalId: { not: externalId }`
authorCountNot_same(d, slug, externalId) ==
    Cardinality({a \in DOMAIN d.authors :
                    d.authors[a].slug = slug /\ a = externalId})

\* db.collectionAuthor.count({ where: { slug, externalId: { not: externalId } } })
authorCountNot(d, slug, externalId) ==
    Cardinality({a \in DOMAIN d.authors :
                    d.authors[a].slug = slug /\ a # externalId})

\* the filter on the title column in place of the slug column
collectionCount_byTitle(d, slug) ==
    Cardinality({c \in DOMAIN d.collections : d.collections[c].title = slug})

\* db.collection.count({ where: { slug } })
collectionCount(d, slug) ==
    Cardinality({c \in DOMAIN d.collections : d.collections[c].slug = slug})

\* the filter `in` in place of `notIn`
collectionCountNotIn_in(d, slug, externalId) ==
    Cardinality({c \in DOMAIN d.collections :
                    d.collections[c].slug = slug /\ c = externalId})

\* db.collection.count({ where: { slug, externalId: { notIn: [externalId] } } })
collectionCountNotIn(d, slug, externalId) ==
    Cardinality({c \in DOMAIN d.collections :
                    d.collections[c].slug = slug /\ c # externalId})

\* a stored row as the client returns it, with its externalId
authorRow(d, externalId) ==
    [externalId |-> externalId,
     name       |-> d.authors[externalId].name,
     slug       |-> d.authors[externalId].slug]

collectionRow(d, externalId) ==
    [externalId  |-> externalId,
     slug        |-> d.collections[externalId].slug,
     title       |-> d.collections[externalId].title,
     status      |-> d.collections[externalId].status,
     publishedAt |-> d.collections[externalId].publishedAt,
     authors     |-> d.collections[externalId].authors]

\* include: { authors }
storyRow(d, externalId) ==
    [externalId   |-> externalId,
     collectionId |-> d.stories[externalId].collectionId,
     title        |-> d.stories[externalId].title,
     authors      |-> {r \in d.storyAuthors : r.collectionStoryId = externalId}]

\* getCollection(db, externalId): <<the collection>> when one is stored under
\* externalId, else null.
getCollection(d, externalId) ==
    IF externalId \in DOMAIN d.collections
    THEN <<collectionRow(d, externalId)>>
    ELSE Null

\* getCollectionStory(db, externalId): <<the story with its authors>> when one
\* is stored under externalId, else null.
getCollectionStory(d, externalId) ==
    IF externalId \in DOMAIN d.stories
    THEN <<storyRow(d, externalId)>>
    ELSE Null

\* The externalId the store gives a new row: no author or collection is ever
\* deleted, so the next one is the count plus one.
newId(table) == Cardinality(DOMAIN table) + 1

----------------------------------------------------------------------------
(* createAuthor, lines 94-109. *)

\* the count taken on data.slug before the slug is defaulted from the name
createAuthor_countFirst(d, data) ==
    LET slug == IF data.slug # Null THEN data.slug ELSE slugify(data.name)
        slugExists == authorCount(d, data.slug)
    IN  IF slugExists > 0
        THEN [db |-> d, out |-> Thrown(AuthorSlugExists(slug))]
        ELSE LET id == Cardinality(DOMAIN d.authors) + 1
                 row == [name |-> data.name, slug |-> slug]
                 stored == [d EXCEPT !.authors = @ @@ (id :> row)]
             IN  [db |-> stored,
                  out |-> Ok([externalId |-> id, name |-> row.name, slug |-> row.slug])]

createAuthor(d, data) ==
    LET slug == IF data.slug # Null THEN data.slug ELSE slugify(data.name)
        slugExists == authorCount(d, slug)
    IN  IF slugExists > 0
        THEN [db |-> d, out |-> Thrown(AuthorSlugExists(slug))]
        ELSE LET id == newId(d.authors)
                 row == [name |-> data.name, slug |-> slug]
                 stored == [d EXCEPT !.authors = @ @@ (id :> row)]
             IN  [db |-> stored, out |-> Ok(authorRow(stored, id))]

(* updateAuthor, lines 115-135. *)

updateAuthor(d, data) ==
    IF data.externalId = NoId
    THEN [db |-> d, out |-> Thrown(ExternalIdMissing)]
    ELSE LET slugExists == authorCountNot(d, data.slug, data.externalId)
         IN  IF slugExists > 0
             THEN [db |-> d, out |-> Thrown(AuthorSlugExists(data.slug))]
             ELSE IF data.externalId \notin DOMAIN d.authors
             THEN [db |-> d, out |-> Thrown(RecordNotFound)]
             ELSE LET stored == [d EXCEPT !.authors[data.externalId] =
                                    [name |-> data.name, slug |-> data.slug]]
                  IN  [db |-> stored, out |-> Ok(authorRow(stored, data.externalId))]

----------------------------------------------------------------------------
(* createCollection, lines 141-178. *)

\* what the schema gives the columns that a create leaves out
collectionDefaults == [status |-> "draft", publishedAt |-> Null]

\* a create that writes a status of its own
newCollection_published(data) ==
    [slug        |-> data.slug,
     title       |-> data.title,
     status      |-> "published",
     publishedAt |-> collectionDefaults.publishedAt,
     authors     |-> {data.authorExternalId}]

\* lines 161-165: the row of `data: { ...data, authors: { connect } }`
newCollection(data) ==
    [slug        |-> data.slug,
     title       |-> data.title,
     status      |-> collectionDefaults.status,
     publishedAt |-> collectionDefaults.publishedAt,
     authors     |-> {data.authorExternalId}]

createCollection(d, data) ==
    LET slugExists == collectionCount(d, data.slug)
    IN  IF slugExists > 0
        THEN [db |-> d, out |-> Thrown(CollectionSlugExists(data.slug))]
        ELSE LET authorExternalId == data.authorExternalId
                 id == newId(d.collections)
                 row == newCollection(data)
                 stored == [d EXCEPT !.collections = @ @@ (id :> row)]
             IN  IF authorExternalId \notin DOMAIN d.authors
                 THEN [db |-> d, out |-> Thrown(RecordNotFound)]
                 ELSE [db |-> stored, out |-> Ok(collectionRow(stored, id))]

(* updateCollection, lines 184-252.  now is what `new Date()` returns. *)

\* the count taken whether or not the slug changes, the collection itself counted
slugTakenByOther_self(d, existingCollection, data) ==
    collectionCount(d, data.slug) > 0

\* lines 198-211: the slug is taken by another collection
slugTakenByOther(d, existingCollection, data) ==
    /\ existingCollection.slug # data.slug
    /\ collectionCountNotIn(d, data.slug, existingCollection.externalId) > 0

\* publishedAt stamped on every update that asks for published
goesToPublished_anyStatus(existingCollection, data) ==
    data.status = "published"

\* `===` in place of `!==` on the stored status
goesToPublished_inverted(existingCollection, data) ==
    /\ existingCollection.status = "published"
    /\ data.status = "published"

\* lines 223-228: the update moves the collection into published
goesToPublished(existingCollection, data) ==
    /\ existingCollection.status # "published"
    /\ data.status = "published"

\* the update with `set: []` left out of the authors argument: the new author
\* is connected next to the ones already linked
updateCollection_connectOnly(d, now, data) ==
    LET found == getCollection(d, data.externalId)
    IN  IF found = Null
        THEN [db |-> d, out |-> Thrown(CollectionNotFound)]
        ELSE LET existingCollection == found[1]
             IN  IF slugTakenByOther(d, existingCollection, data)
                 THEN [db |-> d, out |-> Thrown(CollectionSlugExists(data.slug))]
                 ELSE LET authorExternalId == data.authorExternalId
                          row == [slug        |-> data.slug,
                                  title       |-> data.title,
                                  status      |-> IF data.status = NoStatus
                                                  THEN existingCollection.status
                                                  ELSE data.status,
                                  publishedAt |-> IF goesToPublished(existingCollection, data)
                                                  THEN <<now>>
                                                  ELSE existingCollection.publishedAt,
                                  authors     |-> existingCollection.authors
                                                  \cup {authorExternalId}]
                          stored == [d EXCEPT !.collections[data.externalId] = row]
                      IN  IF authorExternalId \notin DOMAIN d.authors
                          THEN [db |-> d, out |-> Thrown(RecordNotFound)]
                          ELSE [db  |-> stored,
                                out |-> Ok(collectionRow(stored, data.externalId))]

updateCollection(d, now, data) ==
    LET found == getCollection(d, data.externalId)
    IN  IF found = Null
        THEN [db |-> d, out |-> Thrown(CollectionNotFound)]
        ELSE LET existingCollection == found[1]
             IN  IF slugTakenByOther(d, existingCollection, data)
                 THEN [db |-> d, out |-> Thrown(CollectionSlugExists(data.slug))]
                 ELSE LET authorExternalId == data.authorExternalId
                          row == [slug        |-> data.slug,
                                  title       |-> data.title,
                                  status      |-> IF data.status = NoStatus
                                                  THEN existingCollection.status
                                                  ELSE data.status,
                                  publishedAt |-> IF goesToPublished(existingCollection, data)
                                                  THEN <<now>>
                                                  ELSE existingCollection.publishedAt,
                                  authors     |-> {authorExternalId}]
                          stored == [d EXCEPT !.collections[data.externalId] = row]
                      IN  IF authorExternalId \notin DOMAIN d.authors
                          THEN [db |-> d, out |-> Thrown(RecordNotFound)]
                          ELSE [db  |-> stored,
                                out |-> Ok(collectionRow(stored, data.externalId))]

----------------------------------------------------------------------------
(* The story mutations.  A story-author join row is                        *)
(* [collectionStoryId, name, sortOrder].                                    *)

\* the rows that `authors: { create: data.authors }` adds for story id
authorRows(id, authors) ==
    {[collectionStoryId |-> id,
      name              |-> authors[i].name,
      sortOrder         |-> authors[i].sortOrder] : i \in 1..Len(authors)}

\* db.collectionStoryAuthor.deleteMany({ where: { collectionStoryId } })
collectionStoryAuthor_deleteMany(d, collectionStoryId) ==
    [d EXCEPT !.storyAuthors =
        {r \in @ : r.collectionStoryId # collectionStoryId}]

\* db.collectionStory.delete({ where: { externalId } })
collectionStory_delete(d, externalId) ==
    [d EXCEPT !.stories =
        [s \in DOMAIN @ \ {externalId} |-> @[s]]]

(* createCollectionStory, lines 258-282. *)

createCollectionStory(d, data) ==
    LET collection == getCollection(d, data.collectionExternalId)
    IN  IF collection = Null
        THEN [db |-> d, out |-> Thrown(NullDereference)]
        ELSE LET id == d.storySeq + 1
                 row == [collectionId |-> collection[1].externalId,
                         title        |-> data.title]
                 stored == [d EXCEPT !.storySeq = id,
                                     !.stories = @ @@ (id :> row),
                                     !.storyAuthors = @ \cup authorRows(id, data.authors)]
             IN  [db |-> stored, out |-> Ok(storyRow(stored, id))]

(* updateCollectionStory, lines 288-316, await by await.  Each step gives   *)
(* the store it leaves, the request's next position (Idle once it returned  *)
(* or threw) and, then, its outcome.                                        *)

\* lines 293-298: the lookup; `existingStory.id` throws on null
updateCollectionStory_lookup(d, data) ==
    LET existingStory == getCollectionStory(d, data.externalId)
    IN  IF existingStory = Null
        THEN [db |-> d, req |-> Idle, out |-> Thrown(NullDereference)]
        ELSE [db |-> d,
              req |-> [op |-> "updateCollectionStory", pc |-> "deleteMany",
                       data |-> data, existingStory |-> existingStory[1]]]

\* lines 296-300
updateCollectionStory_deleteMany(d, r) ==
    [db  |-> collectionStoryAuthor_deleteMany(d, r.existingStory.externalId),
     req |-> [r EXCEPT !.pc = "update"]]

\* lines 302-315
updateCollectionStory_update(d, r) ==
    LET data == r.data
        stored == [d EXCEPT !.stories[data.externalId].title = data.title,
                            !.storyAuthors =
                                @ \cup authorRows(data.externalId, data.authors)]
    IN  IF data.externalId \notin DOMAIN d.stories
        THEN [db |-> d, req |-> Idle, out |-> Thrown(RecordNotFound)]
        ELSE [db |-> stored, req |-> Idle,
              out |-> Ok(storyRow(stored, data.externalId))]

(* deleteCollectionStory, lines 322-345, await by await. *)

\* `existingStory?.id`: nothing is thrown on null, and the deleteMany that
\* follows has no collectionStoryId to filter on
deleteCollectionStory_lookup_optional(d, externalId) ==
    LET existingStory == getCollectionStory(d, externalId)
    IN  [db |-> d,
         req |-> [op |-> "deleteCollectionStory", pc |-> "deleteMany",
                  data |-> [externalId |-> externalId],
                  existingStory |-> IF existingStory = Null
                                    THEN [externalId |-> NoId, authors |-> {}]
                                    ELSE existingStory[1]]]

\* lines 327-332: the lookup; `existingStory.id` throws on null
deleteCollectionStory_lookup(d, externalId) ==
    LET existingStory == getCollectionStory(d, externalId)
    IN  IF existingStory = Null
        THEN [db |-> d, req |-> Idle, out |-> Thrown(NullDereference)]
        ELSE [db |-> d,
              req |-> [op |-> "deleteCollectionStory", pc |-> "deleteMany",
                       data |-> [externalId |-> externalId],
                       existingStory |-> existingStory[1]]]

\* the story deleted first, its authors after
deleteCollectionStory_deleteMany_storyFirst(d, r) ==
    [db  |-> collectionStory_delete(d, r.existingStory.externalId),
     req |-> [r EXCEPT !.pc = "delete"]]

\* lines 330-334
deleteCollectionStory_deleteMany(d, r) ==
    [db  |-> collectionStoryAuthor_deleteMany(d, r.existingStory.externalId),
     req |-> [r EXCEPT !.pc = "delete"]]

\* lines 337-344: the story is deleted, and the story read at the start returned
deleteCollectionStory_delete(d, r) ==
    IF r.data.externalId \notin DOMAIN d.stories
    THEN [db |-> d, req |-> Idle, out |-> Thrown(RecordNotFound)]
    ELSE [db  |-> collectionStory_delete(d, r.data.externalId),
          req |-> Idle,
          out |-> Ok(r.existingStory)]

----------------------------------------------------------------------------
(* The inputs the mutations are called with. *)

AuthorNames == {<<"a", " ", "b">>, <<"a", "-", "b">>, <<"c">>}

AuthorSlugs == {<<"a", "-", "b">>, <<"d">>}

CollectionSlugs == {"s1", "s2"}

Titles == {"t1", "t2"}

StoryAuthorLists ==
    {<<>>,
     <<[name |-> "x", sortOrder |-> 0]>>,
     <<[name |-> "y", sortOrder |-> 0], [name |-> "x", sortOrder |-> 1]>>}

\* CreateCollectionAuthorInput: a slug of Null is a slug that was not given
CreateCollectionAuthorInput(names, slugs) ==
    [name : names, slug : slugs \cup {Null}]

\* UpdateCollectionAuthorInput
UpdateCollectionAuthorInput(names, slugs) ==
    [externalId : {NoId} \cup 1..MaxAuthors, name : names, slug : slugs]

\* CreateCollectionInput
CreateCollectionInput(slugs, titles) ==
    [slug : slugs, title : titles, authorExternalId : 1..MaxAuthors]

\* UpdateCollectionInput
UpdateCollectionInput(slugs, titles, statuses) ==
    [externalId : 1..MaxCollections, slug : slugs, title : titles,
     authorExternalId : 1..MaxAuthors, status : statuses]

\* CreateCollectionStoryInput
CreateCollectionStoryInput(titles, lists) ==
    [collectionExternalId : 1..MaxCollections, title : titles, authors : lists]

\* UpdateCollectionStoryInput
UpdateCollectionStoryInput(titles, lists) ==
    [externalId : 1..MaxStories, title : titles, authors : lists]

----------------------------------------------------------------------------
(* The state after the store is cleared. *)

Init ==
    /\ db = [authors      |-> <<>>,
             collections  |-> <<>>,
             stories      |-> <<>>,
             storyAuthors |-> {},
             storySeq     |-> 0]
    /\ clock = 1
    /\ req = Idle
    /\ last = [op |-> "none", out |-> Thrown(<<>>)]

\* the call returned or threw
Return(op, out) == last' = [op |-> op, out |-> out]

\* a step of a request: it goes on to its next await, or it returns or throws
Step(op, r) ==
    /\ db' = r.db
    /\ req' = r.req
    /\ IF r.req = Idle THEN Return(op, r.out) ELSE UNCHANGED last

\* time passes
Tick ==
    /\ clock < MaxClock
    /\ clock' = clock + 1
    /\ UNCHANGED <<db, req, last>>

CreateAuthor(data) ==
    /\ req = Idle
    /\ LET r == createAuthor(db, data)
       IN  /\ Cardinality(DOMAIN r.db.authors) <= MaxAuthors
           /\ db' = r.db
           /\ Return("createAuthor", r.out)
    /\ UNCHANGED <<clock, req>>

UpdateAuthor(data) ==
    /\ req = Idle
    /\ LET r == updateAuthor(db, data)
       IN  /\ db' = r.db
           /\ Return("updateAuthor", r.out)
    /\ UNCHANGED <<clock, req>>

CreateCollection(data) ==
    /\ req = Idle
    /\ LET r == createCollection(db, data)
       IN  /\ Cardinality(DOMAIN r.db.collections) <= MaxCollections
           /\ db' = r.db
           /\ Return("createCollection", r.out)
    /\ UNCHANGED <<clock, req>>

UpdateCollection(data) ==
    /\ req = Idle
    /\ LET r == updateCollection(db, clock, data)
       IN  /\ db' = r.db
           /\ Return("updateCollection", r.out)
    /\ UNCHANGED <<clock, req>>

CreateCollectionStory(data) ==
    /\ req = Idle
    /\ LET r == createCollectionStory(db, data)
       IN  /\ r.db.storySeq <= MaxStories
           /\ db' = r.db
           /\ Return("createCollectionStory", r.out)
    /\ UNCHANGED <<clock, req>>

UpdateCollectionStory_lookup(data) ==
    /\ req = Idle
    /\ Step("updateCollectionStory", updateCollectionStory_lookup(db, data))
    /\ UNCHANGED clock

UpdateCollectionStory_deleteMany ==
    /\ req.op = "updateCollectionStory"
    /\ req.pc = "deleteMany"
    /\ Step("updateCollectionStory", updateCollectionStory_deleteMany(db, req))
    /\ UNCHANGED clock

UpdateCollectionStory_update ==
    /\ req.op = "updateCollectionStory"
    /\ req.pc = "update"
    /\ Step("updateCollectionStory", updateCollectionStory_update(db, req))
    /\ UNCHANGED clock

DeleteCollectionStory_lookup(externalId) ==
    /\ req = Idle
    /\ Step("deleteCollectionStory", deleteCollectionStory_lookup(db, externalId))
    /\ UNCHANGED clock

DeleteCollectionStory_deleteMany ==
    /\ req.op = "deleteCollectionStory"
    /\ req.pc = "deleteMany"
    /\ Step("deleteCollectionStory", deleteCollectionStory_deleteMany(db, req))
    /\ UNCHANGED clock

DeleteCollectionStory_delete ==
    /\ req.op = "deleteCollectionStory"
    /\ req.pc = "delete"
    /\ Step("deleteCollectionStory", deleteCollectionStory_delete(db, req))
    /\ UNCHANGED clock

----------------------------------------------------------------------------
(* The specifications.  Spec is the whole API over few inputs; each of the  *)
(* others is the API of one entity over its wider inputs, with just the     *)
(* calls that set up what the entity refers to.                             *)

\* the authors that collections are connected to
SomeAuthors == CreateCollectionAuthorInput({<<"c">>, <<"a", " ", "b">>}, {})

\* the collection that stories are put in
SomeCollection == {[slug |-> "s1", title |-> "t1", authorExternalId |-> 1]}

NextAuthor ==
    \/ \E data \in CreateCollectionAuthorInput(AuthorNames, AuthorSlugs) :
            CreateAuthor(data)
    \/ \E data \in UpdateCollectionAuthorInput(AuthorNames, AuthorSlugs) :
            UpdateAuthor(data)

SpecAuthor == Init /\ [][NextAuthor]_vars

NextCollection ==
    \/ \E data \in SomeAuthors : CreateAuthor(data)
    \/ \E data \in CreateCollectionInput(CollectionSlugs, {"t1"}) :
            CreateCollection(data)
    \/ \E data \in UpdateCollectionInput(CollectionSlugs, {"t1"},
                                         CollectionStatus \cup {NoStatus}) :
            UpdateCollection(data)
    \/ Tick

SpecCollection == Init /\ [][NextCollection]_vars

NextStory ==
    \/ \E data \in SomeAuthors : CreateAuthor(data)
    \/ \E data \in SomeCollection : CreateCollection(data)
    \/ \E data \in CreateCollectionStoryInput({"t1"}, StoryAuthorLists) :
            CreateCollectionStory(data)
    \/ \E data \in UpdateCollectionStoryInput(Titles, StoryAuthorLists) :
            UpdateCollectionStory_lookup(data)
    \/ UpdateCollectionStory_deleteMany
    \/ UpdateCollectionStory_update
    \/ \E externalId \in 1..MaxStories : DeleteCollectionStory_lookup(externalId)
    \/ DeleteCollectionStory_deleteMany
    \/ DeleteCollectionStory_delete

SpecStory == Init /\ [][NextStory]_vars

Next ==
    \/ \E data \in CreateCollectionAuthorInput({<<"c">>}, {<<"d">>}) :
            CreateAuthor(data)
    \/ \E data \in UpdateCollectionAuthorInput({<<"c">>}, {<<"d">>}) :
            UpdateAuthor(data)
    \/ \E data \in CreateCollectionInput({"s1", "s2"}, {"t1"}) :
            CreateCollection(data)
    \/ \E data \in UpdateCollectionInput({"s1"}, {"t1"}, {NoStatus}) :
            UpdateCollection(data)
    \/ \E data \in CreateCollectionStoryInput({"t1"}, {<<[name |-> "x", sortOrder |-> 0]>>}) :
            CreateCollectionStory(data)
    \/ \E data \in UpdateCollectionStoryInput({"t1"}, {<<>>}) :
            UpdateCollectionStory_lookup(data)
    \/ UpdateCollectionStory_deleteMany
    \/ UpdateCollectionStory_update
    \/ \E externalId \in 1..MaxStories : DeleteCollectionStory_lookup(externalId)
    \/ DeleteCollectionStory_deleteMany
    \/ DeleteCollectionStory_delete

Spec == Init /\ [][Next]_vars

----------------------------------------------------------------------------
(* Calls that overlap.  A handler is an async function: between two of its  *)
(* awaits another call may run.  Under the specifications below `req` maps  *)
(* each of the two request slots to the call that it runs, and every await  *)
(* of createCollection, updateCollection and updateCollectionStory is a     *)
(* step of its own.  What a handler read before an await (slugExists,       *)
(* existingCollection, existingStory) it keeps in its request.              *)
(*                                                                         *)
(* Under these specifications the collection table has the unique index on  *)
(* its slug column that the schema declares: a write that would leave two   *)
(* rows with one slug is rejected by the store and changes nothing.         *)

Slots == {"p", "q"}

\* the request of a slot once its call returned or threw; pending is the set
\* of slots that, when this call issued its write, had passed their own slug
\* count for the same slug and had not issued their write yet
Done(op, data, out, pending) ==
    [op |-> "done", call |-> op, data |-> data, out |-> out, pending |-> pending]

\* the error of the store when a write violates the unique index on slug
UniqueConstraintFailed == <<"Unique constraint failed on the fields: (slug)">>

\* the unique index on collection.slug: a row other than self holds slug
slugIndexRejects(d, slug, self) ==
    \E id \in DOMAIN d.collections \ {self} : d.collections[id].slug = slug

(* createCollection, lines 141-178, await by await. *)

\* lines 145-151: the count, and the throw when a collection holds the slug
createCollection_count(d, data) ==
    LET slugExists == collectionCount(d, data.slug)
    IN  IF slugExists > 0
        THEN [db |-> d, req |-> Idle,
              out |-> Thrown(CollectionSlugExists(data.slug))]
        ELSE [db |-> d,
              req |-> [op |-> "createCollection", pc |-> "create",
                       data |-> data, counted |-> TRUE]]

\* the create that, told by the store that the slug is taken, gives back a
\* success all the same (a createMany with skipDuplicates, or a caught error)
createCollection_create_skipDuplicates(d, r) ==
    LET data == r.data
        id == newId(d.collections)
        stored == [d EXCEPT !.collections = @ @@ (id :> newCollection(data))]
    IN  IF slugIndexRejects(d, data.slug, NoId)
        THEN [db |-> d, req |-> Idle,
              out |-> Ok([externalId |-> NoId] @@ newCollection(data))]
        ELSE IF data.authorExternalId \notin DOMAIN d.authors
        THEN [db |-> d, req |-> Idle, out |-> Thrown(RecordNotFound)]
        ELSE [db |-> stored, req |-> Idle,
              out |-> Ok(collectionRow(stored, id))]

\* lines 161-177: the create; nothing catches what the store throws
createCollection_create(d, r) ==
    LET data == r.data
        id == newId(d.collections)
        stored == [d EXCEPT !.collections = @ @@ (id :> newCollection(data))]
    IN  IF slugIndexRejects(d, data.slug, NoId)
        THEN [db |-> d, req |-> Idle, out |-> Thrown(UniqueConstraintFailed)]
        ELSE IF data.authorExternalId \notin DOMAIN d.authors
        THEN [db |-> d, req |-> Idle, out |-> Thrown(RecordNotFound)]
        ELSE [db |-> stored, req |-> Idle,
              out |-> Ok(collectionRow(stored, id))]

(* updateCollection, lines 184-252, await by await. *)

\* lines 189-198: the lookup; the count is skipped when the slug is not
\* changed
updateCollection_lookup(d, data) ==
    LET found == getCollection(d, data.externalId)
    IN  IF found = Null
        THEN [db |-> d, req |-> Idle, out |-> Thrown(CollectionNotFound)]
        ELSE LET existingCollection == found[1]
                 slugChanges == existingCollection.slug # data.slug
             IN  [db |-> d,
                  req |-> [op |-> "updateCollection",
                           pc |-> IF slugChanges THEN "count" ELSE "update",
                           data |-> data,
                           existingCollection |-> existingCollection,
                           counted |-> FALSE]]

\* lines 201-210: the count of the other collections that hold the slug
updateCollection_count(d, r) ==
    LET sameSlugs == collectionCountNotIn(d, r.data.slug,
                                          r.existingCollection.externalId)
    IN  IF sameSlugs > 0
        THEN [db |-> d, req |-> Idle,
              out |-> Thrown(CollectionSlugExists(r.data.slug))]
        ELSE [db |-> d, req |-> [r EXCEPT !.pc = "update", !.counted = TRUE]]

\* lines 223-251: the update.  Whether publishedAt is written is decided on
\* the collection as the lookup read it; the columns that are not written
\* keep what the store holds now.
updateCollection_update(d, now, r) ==
    LET data == r.data
        id == data.externalId
        row == [slug        |-> data.slug,
                title       |-> data.title,
                status      |-> IF data.status = NoStatus
                                THEN d.collections[id].status
                                ELSE data.status,
                publishedAt |-> IF goesToPublished(r.existingCollection, data)
                                THEN <<now>>
                                ELSE d.collections[id].publishedAt,
                authors     |-> {data.authorExternalId}]
        stored == [d EXCEPT !.collections[id] = row]
    IN  IF id \notin DOMAIN d.collections
        THEN [db |-> d, req |-> Idle, out |-> Thrown(RecordNotFound)]
        ELSE IF slugIndexRejects(d, data.slug, id)
        THEN [db |-> d, req |-> Idle, out |-> Thrown(UniqueConstraintFailed)]
        ELSE IF data.authorExternalId \notin DOMAIN d.authors
        THEN [db |-> d, req |-> Idle, out |-> Thrown(RecordNotFound)]
        ELSE [db |-> stored, req |-> Idle,
              out |-> Ok(collectionRow(stored, id))]

(* The state after the store is cleared, no call running. *)

InitConcurrent ==
    /\ db = [authors      |-> <<>>,
             collections  |-> <<>>,
             stories      |-> <<>>,
             storyAuthors |-> {},
             storySeq     |-> 0]
    /\ clock = 1
    /\ req = [s \in Slots |-> Idle]
    /\ last = [op |-> "none", out |-> Thrown(<<>>)]

\* no call has been made on the slots yet
noneStarted == \A s \in Slots : req[s] = Idle

\* the slots whose call is at position pc of handler op
inFlight(op, pc) == {s \in Slots : req[s].op = op /\ req[s].pc = pc}

\* the other slots that have counted the slug and are about to write it
pendingWrites(s, slug) ==
    {t \in Slots \ {s} :
        /\ req[t].op \in {"createCollection", "updateCollection"}
        /\ req[t].pc \in {"create", "update"}
        /\ req[t].counted
        /\ req[t].data.slug = slug}

\* a step of the call of slot s
SlotStep(s, op, data, r, pending) ==
    /\ db' = r.db
    /\ IF r.req = Idle
       THEN /\ req' = [req EXCEPT ![s] = Done(op, data, r.out, pending)]
            /\ Return(op, r.out)
       ELSE /\ req' = [req EXCEPT ![s] = r.req]
            /\ UNCHANGED last

\* the calls made one after the other before the overlapping ones
Before_createAuthor(data) ==
    /\ noneStarted
    /\ LET r == createAuthor(db, data)
       IN  /\ Cardinality(DOMAIN r.db.authors) <= MaxAuthors
           /\ db' = r.db
           /\ Return("createAuthor", r.out)
    /\ UNCHANGED <<clock, req>>

Before_createCollection(data) ==
    /\ noneStarted
    /\ LET r == createCollection(db, data)
       IN  /\ Cardinality(DOMAIN r.db.collections) < MaxCollections
           /\ db' = r.db
           /\ Return("createCollection", r.out)
    /\ UNCHANGED <<clock, req>>

Before_createCollectionStory(data) ==
    /\ noneStarted
    /\ LET r == createCollectionStory(db, data)
       IN  /\ Cardinality(DOMAIN r.db.stories) <= MaxStories
           /\ r.db.storySeq <= MaxStories
           /\ db' = r.db
           /\ Return("createCollectionStory", r.out)
    /\ UNCHANGED <<clock, req>>

Slot_createCollection_count(s, data) ==
    /\ req[s] = Idle
    /\ Cardinality(DOMAIN db.collections)
         + Cardinality(inFlight("createCollection", "create")) < MaxCollections
    /\ SlotStep(s, "createCollection", data, createCollection_count(db, data), {})
    /\ UNCHANGED clock

Slot_createCollection_create(s) ==
    /\ req[s].op = "createCollection"
    /\ req[s].pc = "create"
    /\ SlotStep(s, "createCollection", req[s].data,
                createCollection_create(db, req[s]),
                pendingWrites(s, req[s].data.slug))
    /\ UNCHANGED clock

Slot_updateCollection_lookup(s, data) ==
    /\ req[s] = Idle
    /\ SlotStep(s, "updateCollection", data, updateCollection_lookup(db, data), {})
    /\ UNCHANGED clock

Slot_updateCollection_count(s) ==
    /\ req[s].op = "updateCollection"
    /\ req[s].pc = "count"
    /\ SlotStep(s, "updateCollection", req[s].data,
                updateCollection_count(db, req[s]), {})
    /\ UNCHANGED clock

Slot_updateCollection_update(s) ==
    /\ req[s].op = "updateCollection"
    /\ req[s].pc = "update"
    /\ SlotStep(s, "updateCollection", req[s].data,
                updateCollection_update(db, clock, req[s]),
                IF req[s].counted THEN pendingWrites(s, req[s].data.slug) ELSE {})
    /\ UNCHANGED clock

Slot_updateCollectionStory_lookup(s, data) ==
    /\ req[s] = Idle
    /\ SlotStep(s, "updateCollectionStory", data,
                updateCollectionStory_lookup(db, data), {})
    /\ UNCHANGED clock

Slot_updateCollectionStory_deleteMany(s) ==
    /\ req[s].op = "updateCollectionStory"
    /\ req[s].pc = "deleteMany"
    /\ SlotStep(s, "updateCollectionStory", req[s].data,
                updateCollectionStory_deleteMany(db, req[s]), {})
    /\ UNCHANGED clock

Slot_updateCollectionStory_update(s) ==
    /\ req[s].op = "updateCollectionStory"
    /\ req[s].pc = "update"
    /\ SlotStep(s, "updateCollectionStory", req[s].data,
                updateCollectionStory_update(db, req[s]), {})
    /\ UNCHANGED clock

\* overlapping createCollection and updateCollection calls
NextConcurrentCollection ==
    \/ \E data \in CreateCollectionAuthorInput({<<"c">>}, {}) :
            Before_createAuthor(data)
    \/ \E data \in SomeCollection : Before_createCollection(data)
    \/ \E s \in Slots, data \in CreateCollectionInput(CollectionSlugs, {"t1"}) :
            Slot_createCollection_count(s, data)
    \/ \E s \in Slots : Slot_createCollection_create(s)
    \/ \E s \in Slots,
          data \in UpdateCollectionInput(CollectionSlugs, {"t2"}, {NoStatus}) :
            Slot_updateCollection_lookup(s, data)
    \/ \E s \in Slots : Slot_updateCollection_count(s)
    \/ \E s \in Slots : Slot_updateCollection_update(s)

SpecConcurrentCollection == InitConcurrent /\ [][NextConcurrentCollection]_vars

\* overlapping updateCollectionStory calls
NextConcurrentStory ==
    \/ \E data \in CreateCollectionAuthorInput({<<"c">>}, {}) :
            Before_createAuthor(data)
    \/ \E data \in SomeCollection : Before_createCollection(data)
    \/ \E data \in CreateCollectionStoryInput({"t1"}, StoryAuthorLists) :
            Before_createCollectionStory(data)
    \/ \E s \in Slots, data \in UpdateCollectionStoryInput({"t2"}, StoryAuthorLists) :
            Slot_updateCollectionStory_lookup(s, data)
    \/ \E s \in Slots : Slot_updateCollectionStory_deleteMany(s)
    \/ \E s \in Slots : Slot_updateCollectionStory_update(s)

SpecConcurrentStory == InitConcurrent /\ [][NextConcurrentStory]_vars

----------------------------------------------------------------------------
(* Properties of the collection mutations, under SpecCollection. *)

\* the inputs the properties range over: they need not be inputs of a call
\* that SpecCollection makes
AnyCreateCollection == CreateCollectionInput(CollectionSlugs, Titles)

AnyUpdateCollection ==
    UpdateCollectionInput(CollectionSlugs, Titles, CollectionStatus \cup {NoStatus})

\* the stored collections that hold slug
holders(d, slug) ==
    {c \in DOMAIN d.collections : d.collections[c].slug = slug}

\* C1: after any sequence of createCollection and updateCollection calls, no
\* two stored collections have the same slug.
C1_CollectionSlugUnique ==
    \A c1, c2 \in DOMAIN db.collections :
        c1 # c2 => db.collections[c1].slug # db.collections[c2].slug

\* C1's case: two collections are stored and an update has just gone through.
C1_Witness ==
    /\ Cardinality(DOMAIN db.collections) = 2
    /\ last.op = "updateCollection"
    /\ succeeded(last.out)

\* C2 as stated: once publishedAt has a value, no later updateCollection call
\* changes it, also when the status leaves published and comes back.
C2_PublishedAtNeverChanges ==
    [][\A c \in DOMAIN db.collections :
          db.collections[c].publishedAt # Null
              => db'.collections[c].publishedAt = db.collections[c].publishedAt]_vars

\* C2, amended: once publishedAt has a value, an updateCollection call changes
\* it only when it moves the status from not published to published, and then
\* to the time of that call; every other call leaves it as it is.
C2_PublishedAtChangesOnlyOnPublish ==
    [][\A c \in DOMAIN db.collections :
          (/\ db.collections[c].publishedAt # Null
           /\ db'.collections[c].publishedAt # db.collections[c].publishedAt)
              => /\ db.collections[c].status # "published"
                 /\ db'.collections[c].status = "published"
                 /\ db'.collections[c].publishedAt = <<clock>>]_vars

\* C2's case: an update has moved a collection out of published, and its
\* publishedAt is still there.
C2_Witness ==
    /\ last.op = "updateCollection"
    /\ succeeded(last.out)
    /\ last.out.row[1].status # "published"
    /\ last.out.row[1].publishedAt # Null
    /\ db.collections[last.out.row[1].externalId].publishedAt # Null

\* C3: a successful updateCollection with status published on a collection
\* that is not published returns and stores a publishedAt that is not empty
\* (the time of the call), and a following successful updateCollection with
\* status published on it, at that time or later, leaves that value.
C3_PublishedAtSetThenKept ==
    \A data \in AnyUpdateCollection :
        LET r == updateCollection(db, clock, data)
            id == data.externalId
        IN  (/\ succeeded(r.out)
             /\ data.status = "published"
             /\ db.collections[id].status # "published")
                => /\ r.out.row[1].publishedAt = <<clock>>
                   /\ r.db.collections[id].publishedAt = <<clock>>
                   /\ \A again \in AnyUpdateCollection, now \in clock..MaxClock :
                        LET r2 == updateCollection(r.db, now, again)
                        IN  (/\ again.externalId = id
                             /\ again.status = "published"
                             /\ succeeded(r2.out))
                                => /\ r2.out.row[1].publishedAt = <<clock>>
                                   /\ r2.db.collections[id].publishedAt = <<clock>>

\* C3's case: an update has returned a published collection whose publishedAt
\* is earlier than the time of that update.
C3_Witness ==
    /\ last.op = "updateCollection"
    /\ succeeded(last.out)
    /\ last.out.row[1].status = "published"
    /\ last.out.row[1].publishedAt # Null
    /\ last.out.row[1].publishedAt[1] < clock

\* C4: createCollection with a slug that a stored collection has throws
\* 'A collection with the slug <slug> already exists' and leaves the store
\* as it was.
C4_CreateDuplicateSlugFails ==
    \A data \in AnyCreateCollection :
        holders(db, data.slug) # {}
            => createCollection(db, data)
                 = [db |-> db, out |-> Thrown(CollectionSlugExists(data.slug))]

\* C4's case: a createCollection has thrown the duplicate slug error.
C4_Witness ==
    /\ last.op = "createCollection"
    /\ \E slug \in CollectionSlugs :
          /\ threw(last.out, CollectionSlugExists(slug))
          /\ holders(db, slug) # {}

\* C5: for a stored collection C, updateCollection throws 'A collection with
\* the slug <slug> already exists' exactly when a collection other than C
\* holds the requested slug; C's own slug is not rejected, and a rejected
\* update leaves the store as it was.
C5_UpdateDuplicateSlugFails ==
    \A data \in AnyUpdateCollection :
        data.externalId \in DOMAIN db.collections =>
            LET r == updateCollection(db, clock, data)
                others == holders(db, data.slug) \ {data.externalId}
                rejected == threw(r.out, CollectionSlugExists(data.slug))
            IN  /\ rejected <=> others # {}
                /\ rejected => r.db = db
                /\ data.slug = db.collections[data.externalId].slug => ~rejected

\* C5's case: an updateCollection has thrown the duplicate slug error.
C5_Witness ==
    /\ last.op = "updateCollection"
    /\ \E slug \in CollectionSlugs :
          /\ threw(last.out, CollectionSlugExists(slug))
          /\ Cardinality(holders(db, slug)) = 1
    /\ Cardinality(DOMAIN db.collections) = 2

----------------------------------------------------------------------------
(* Properties of the author mutations, under SpecAuthor. *)

AnyCreateAuthor == CreateCollectionAuthorInput(AuthorNames, AuthorSlugs)

AnyUpdateAuthor == UpdateCollectionAuthorInput(AuthorNames, AuthorSlugs)

\* the stored authors that hold slug
authorHolders(d, slug) ==
    {a \in DOMAIN d.authors : d.authors[a].slug = slug}

\* C7: no two stored authors have the same slug; a createAuthor whose slug is
\* stored, and an updateAuthor whose slug an author with another externalId
\* holds, throw 'An author with the slug "<slug>" already exists' and leave
\* the store as it was.
C7_AuthorSlugUnique ==
    /\ \A a1, a2 \in DOMAIN db.authors :
          a1 # a2 => db.authors[a1].slug # db.authors[a2].slug
    /\ \A data \in AnyCreateAuthor :
          (data.slug # Null /\ authorHolders(db, data.slug) # {})
              => createAuthor(db, data)
                   = [db |-> db, out |-> Thrown(AuthorSlugExists(data.slug))]
    /\ \A data \in AnyUpdateAuthor :
          (/\ data.externalId # NoId
           /\ authorHolders(db, data.slug) \ {data.externalId} # {})
              => updateAuthor(db, data)
                   = [db |-> db, out |-> Thrown(AuthorSlugExists(data.slug))]

\* C7's case: with two authors stored, an updateAuthor has thrown the
\* duplicate slug error for a slug that one author holds.
C7_Witness ==
    /\ last.op = "updateAuthor"
    /\ Cardinality(DOMAIN db.authors) = 2
    /\ \E slug \in AuthorSlugs :
          /\ threw(last.out, AuthorSlugExists(slug))
          /\ Cardinality(authorHolders(db, slug)) = 1

\* C8: createAuthor stores the slug it is given, and the slugified name when
\* it is given none; it throws the duplicate slug error exactly when a stored
\* author holds that resulting slug, and then stores nothing.
C8_CreateAuthorSlug ==
    \A data \in AnyCreateAuthor :
        LET r == createAuthor(db, data)
            slug == IF data.slug = Null THEN slugify(data.name) ELSE data.slug
        IN  IF authorHolders(db, slug) # {}
            THEN r = [db |-> db, out |-> Thrown(AuthorSlugExists(slug))]
            ELSE /\ succeeded(r.out)
                 /\ r.out.row[1].slug = slug
                 /\ r.out.row[1].name = data.name
                 /\ r.db.authors[r.out.row[1].externalId].slug = slug
                 /\ DOMAIN r.db.authors = DOMAIN db.authors \cup {r.out.row[1].externalId}

\* C8's case: a createAuthor that was given no slug (no caller gives the slug
\* 'c') has thrown the duplicate slug error for the slugified name 'c'.
C8_Witness ==
    /\ last.op = "createAuthor"
    /\ threw(last.out, AuthorSlugExists(<<"c">>))
    /\ <<"c">> \notin AuthorSlugs
    /\ \E a \in DOMAIN db.authors :
          db.authors[a].slug = <<"c">> /\ db.authors[a].name = <<"c">>

----------------------------------------------------------------------------
(* Properties of the story mutations, under SpecStory. *)

\* the join rows of story id
rowsOf(d, id) == {r \in d.storyAuthors : r.collectionStoryId = id}

\* C9: deleteCollectionStory deletes the story's join rows before the story:
\* no join row ever references a story that is not stored, between its two
\* writes the rows are gone and the story is still there, and once it has
\* returned neither the story nor a join row of it is stored.
C9_StoryAuthorsDeletedFirst ==
    /\ \A r \in db.storyAuthors : r.collectionStoryId \in DOMAIN db.stories
    /\ (req.op = "deleteCollectionStory" /\ req.pc = "delete")
          => /\ req.data.externalId \in DOMAIN db.stories
             /\ rowsOf(db, req.data.externalId) = {}
    /\ (last.op = "deleteCollectionStory" /\ succeeded(last.out))
          => /\ last.out.row[1].externalId \notin DOMAIN db.stories
             /\ rowsOf(db, last.out.row[1].externalId) = {}

\* C9's case: a deleteCollectionStory of a story that had join rows has returned.
C9_Witness ==
    /\ last.op = "deleteCollectionStory"
    /\ succeeded(last.out)
    /\ last.out.row[1].authors # {}
    /\ req = Idle

----------------------------------------------------------------------------
(* Properties of the whole API, under Spec. *)

\* C10: a mutation whose target cannot be identified throws before it writes
\* and leaves the store as it was: updateAuthor without an externalId,
\* updateCollection with an externalId of no collection, createCollectionStory
\* with a collectionExternalId of no collection, and updateCollectionStory and
\* deleteCollectionStory with an externalId of no story.
C10_UnknownTargetThrows ==
    /\ \A data \in AnyUpdateAuthor :
          data.externalId = NoId
              => updateAuthor(db, data)
                   = [db |-> db, out |-> Thrown(ExternalIdMissing)]
    /\ \A data \in AnyUpdateCollection :
          data.externalId \notin DOMAIN db.collections
              => updateCollection(db, clock, data)
                   = [db |-> db, out |-> Thrown(CollectionNotFound)]
    /\ \A data \in CreateCollectionStoryInput(Titles, StoryAuthorLists) :
          data.collectionExternalId \notin DOMAIN db.collections
              => LET r == createCollectionStory(db, data)
                 IN  r.out.kind = "error" /\ r.db = db
    /\ \A data \in UpdateCollectionStoryInput(Titles, StoryAuthorLists) :
          data.externalId \notin DOMAIN db.stories
              => LET r == updateCollectionStory_lookup(db, data)
                 IN  r.req = Idle /\ r.out.kind = "error" /\ r.db = db
    /\ \A externalId \in 1..MaxStories :
          externalId \notin DOMAIN db.stories
              => LET r == deleteCollectionStory_lookup(db, externalId)
                 IN  r.req = Idle /\ r.out.kind = "error" /\ r.db = db

\* C10's case: with a story, its join rows, a collection and an author stored,
\* a deleteCollectionStory of an unknown story has thrown.
C10_Witness ==
    /\ last.op = "deleteCollectionStory"
    /\ last.out.kind = "error"
    /\ req = Idle
    /\ DOMAIN db.stories # {}
    /\ db.storyAuthors # {}

-----------------------------------------------------------------------------
\* C11: a successful updateCollection leaves the collection linked to exactly
\* the one author named by authorExternalId, whatever it was linked to
\* before, and leaves the author links of every other collection as they
\* were.
C11_UpdateReplacesAuthors ==
    \A data \in AnyUpdateCollection :
        LET r == updateCollection(db, clock, data)
        IN  succeeded(r.out) =>
                /\ DOMAIN r.db.collections = DOMAIN db.collections
                /\ r.db.collections[data.externalId].authors = {data.authorExternalId}
                /\ r.out.row[1].authors = {data.authorExternalId}
                /\ \A other \in DOMAIN db.collections \ {data.externalId} :
                       r.db.collections[other].authors = db.collections[other].authors

\* an updateCollection has just succeeded and returned a collection linked
\* to author 2 alone, while another collection is still linked to author 1
C11_Witness ==
    /\ last.op = "updateCollection"
    /\ succeeded(last.out)
    /\ last.out.row[1].authors = {2}
    /\ db.collections[last.out.row[1].externalId].authors = {2}
    /\ \E other \in DOMAIN db.collections \ {last.out.row[1].externalId} :
           db.collections[other].authors = {1}

-----------------------------------------------------------------------------
(* Properties of overlapping calls, under SpecConcurrentCollection and      *)
(* SpecConcurrentStory.                                                     *)

\* C12: when two calls (two createCollection, or a createCollection and an
\* updateCollection) have both counted the same slug before either wrote,
\* the count rejects neither of them; no state holds two collections with one
\* slug; at most one of the two writes takes effect, and when the first
\* write succeeds the second call is rejected by the unique index of the
\* store and the stored collection is the first call's.
C12_RacingWritesOneWins ==
    /\ \A slug \in CollectionSlugs : Cardinality(holders(db, slug)) <= 1
    /\ \A s \in Slots, t \in Slots :
          (/\ req[s].op = "done"
           /\ req[t].op = "done"
           /\ t \in req[s].pending
           /\ "createCollection" \in {req[s].call, req[t].call}) =>
              /\ ~threw(req[s].out, CollectionSlugExists(req[s].data.slug))
              /\ ~threw(req[t].out, CollectionSlugExists(req[t].data.slug))
              /\ ~(succeeded(req[s].out) /\ succeeded(req[t].out))
              /\ succeeded(req[s].out) =>
                    /\ threw(req[t].out, UniqueConstraintFailed)
                    /\ holders(db, req[s].data.slug) = {req[s].out.row[1].externalId}
                    /\ collectionRow(db, req[s].out.row[1].externalId)
                         = req[s].out.row[1]

\* a createCollection and an updateCollection both counted slug s2 before
\* either wrote; the first write succeeded, the second was rejected by the
\* store
C12_Witness ==
    \E s \in Slots, t \in Slots :
        /\ req[s].op = "done"
        /\ req[t].op = "done"
        /\ t \in req[s].pending
        /\ {req[s].call, req[t].call} = {"createCollection", "updateCollection"}
        /\ succeeded(req[s].out)
        /\ threw(req[t].out, UniqueConstraintFailed)

\* a call of updateCollectionStory that ran with no other call on the slots:
\* the story's author rows are the rows of its authors list
C13_UpdateAloneReplacesAuthors ==
    \A s \in Slots :
        (/\ req[s].op = "done"
         /\ req[s].call = "updateCollectionStory"
         /\ succeeded(req[s].out)
         /\ \A t \in Slots \ {s} : req[t] = Idle) =>
            rowsOf(db, req[s].data.externalId)
                = authorRows(req[s].data.externalId, req[s].data.authors)

\* C13: a successful updateCollectionStory leaves the story with exactly the
\* author rows of its authors list, and once two updateCollectionStory calls
\* on one story have both returned, however their steps were interleaved,
\* the story's author rows are the rows of the authors list of one of the
\* two calls, never rows of both.
C13_UpdateStoryAuthorsOfOneCall ==
    /\ C13_UpdateAloneReplacesAuthors
    /\ \A s \in Slots, t \in Slots :
          (/\ s # t
           /\ req[s].op = "done" /\ req[s].call = "updateCollectionStory"
           /\ req[t].op = "done" /\ req[t].call = "updateCollectionStory"
           /\ succeeded(req[s].out) /\ succeeded(req[t].out)
           /\ req[s].data.externalId = req[t].data.externalId) =>
              rowsOf(db, req[s].data.externalId)
                 \in {authorRows(req[s].data.externalId, req[s].data.authors),
                      authorRows(req[t].data.externalId, req[t].data.authors)}

====
